---- MODULE Spec2Model ----
(***************************************************************************)
(* A model of the DQN-gated multi-agent assessment loop:                   *)
(*   - the deliberation graph (workflow/graph.py, workflow/nodes.py,       *)
(*     workflow/dqn_node.py, workflow/state.py), executed in supersteps:   *)
(*     debate_fanout, then the role nodes in parallel, then dqn_decision   *)
(*     followed at once by route_after_decision;                           *)
(*   - the controller (core/dqn_agent.py);                                 *)
(*   - the training harness (train.py).                                    *)
(* Real-valued quantities are kept as integers: an exploration rate and a  *)
(* random draw are in thousandths, a reward is in sixtieths.               *)
(***************************************************************************)
EXTENDS Integers, Sequences, FiniteSets, TLC

VARIABLES
    pc,             \* position of the harness / graph run
    i,              \* train(): episode index of the for loop
    submission,     \* the episode's subject, kept as its ground-truth score
    reviews,        \* GraphState.reviews
    current_round,  \* GraphState.current_round
    dqn_action,     \* GraphState.dqn_action
    dqn_trace,      \* what final_state.get("dqn_trace", []) holds
    done,           \* role nodes that have finished in the running superstep
    writes,         \* role node -> the update it returned (buffered until the barrier)
    history,        \* role node -> the previous_reviews it handed to its evaluator
    seen,           \* role node -> the reviews of the state it was given
    policy_net,     \* DQNAgent.policy_net parameters
    memory,         \* DQNAgent.memory (replay buffer)
    optimizer,      \* DQNAgent.optimizer, by its state: "fresh", "stepped", or one loaded
    metrics_log,    \* train(): metrics_log, each row cut to its episode and to whether
                    \* its reward and loss hold a value or None
    checkpoint,     \* the checkpoint file: <<>> when there is none, else <<its content>>
    load,           \* history: what load_checkpoint did at the start of train()
    passes,         \* history: controller passes of the running episode
    all_debate,     \* history: every controller pass of the episode chose Debate (1)
    crashed,        \* history: role nodes whose evaluator raised in the episode
    dqn_call,       \* history: the arguments of the last controller pass's calls
    stored,         \* history: store_transition calls of the last settled episode
    aborted,        \* history: episodes that ended in the harness's except branch
    snapshot,       \* history: <<>>, or <<the controller and loop index of the process
                    \* that was ended after it wrote a checkpoint>>
    run_mode,       \* global_config["run_mode"]
    max_rounds_cfg, \* agent_factory.config["global_settings"]["max_rounds"]
    agents_cache,   \* AgentFactory.agents_cache: key -> the evaluator stored under it
    lookup,         \* role node -> where its call of get_agent_by_name stands
    rubric_reads,   \* history: set_id -> how often its rubric file was read
    constructed,    \* history: key -> how many evaluators were constructed for it
    returned,       \* history: key -> the evaluators get_agent_by_name returned for it
    arg,            \* input of a function applied on its own
    ret             \* its result

vars == <<pc, i, submission, reviews, current_round, dqn_action, dqn_trace, done,
          writes, history, seen, policy_net, memory, optimizer, metrics_log, checkpoint, load,
          passes, all_debate, crashed, dqn_call, stored, aborted, snapshot, run_mode,
          max_rounds_cfg, agents_cache, lookup, rubric_reads, constructed, returned, arg, ret>>

(* ------------------------------ bounds -------------------------------- *)

\* global_settings.max_rounds of mas_config.yaml (default 6), scaled down
MaxRounds == 2

\* training.total_episodes of config.yaml, scaled down
TotalEpisodes == 2

\* training.batch_size of config.yaml, scaled down
BatchSize == 2

\* DQNAgent(buffer_size=5000), scaled down
BufferSize == 3

\* the controller node is not modelled beyond this round (never reached by the code)
RoundCap == MaxRounds + 2

(* --------------------------- configuration ---------------------------- *)

\* the "agents" list of mas_config.yaml, in its order
AgentNames == <<"content_expert", "language_expert">>

Roles == {AgentNames[k] : k \in 1..Len(AgentNames)}

NumAgents == Len(AgentNames)

\* overall_score values an evaluator may return (schema: 0 <= overall_score <= 5)
ScoreVals == {1, 4}

\* ground-truth scores of the corpus on the 0-5 scale
GtVals == {3}

\* DQNAgent.action_space
ActionSpace == <<0, 1, 2>>

\* the exploration rate dqn_decision_node passes to select_action (0.1), in thousandths
NodeEpsilon == 100

\* exploration rates in thousandths: never explore, the node's rate, always explore
EpsVals == {0, NodeEpsilon, 1000}

\* values of random.random(), in thousandths: a float of [0, 1)
RandomDraws == {0, 50, 500, 999}

\* the divisor of the round feature of StateEncoder.encode
EncoderMaxRounds == 6

\* the number of trailing reviews calculate_reward averages
RewardAgents == 3

\* train() saves a checkpoint after every tenth episode
CheckpointEvery == 10

(* ------------------------------ helpers ------------------------------- *)

Max2(a, b) == IF a >= b THEN a ELSE b

Abs(a) == IF a >= 0 THEN a ELSE -a

RECURSIVE Gcd(_, _)
Gcd(a, b) == IF b = 0 THEN a ELSE Gcd(b, a % b)

\* the fraction n/d (n >= 0, d > 0) in lowest terms
Frac(n, d) == LET g == Gcd(n, d) IN <<n \div g, d \div g>>

RECURSIVE SeqSum(_)
SeqSum(s) == IF s = <<>> THEN 0 ELSE Head(s) + SeqSum(Tail(s))

SeqMin(s) == CHOOSE m \in {s[k] : k \in 1..Len(s)} : \A k \in 1..Len(s) : m <= s[k]

\* Python's s[-n:] for n >= 1
LastN(s, n) == IF Len(s) <= n THEN s ELSE SubSeq(s, Len(s) - n + 1, Len(s))

(* ---------------------------- the encoder ----------------------------- *)

\* StateEncoder.encode with the round feature left as current_round / max_rounds
encode_unclamped(revs, round) ==
    IF revs = <<>>
    THEN [k \in 1..6 |-> <<0, 1>>]
    ELSE LET n == Len(revs)
             scores == [k \in 1..n |-> revs[k].score]
             confs == [k \in 1..n |-> revs[k].conf]
             s == SeqSum(scores)
             sq == SeqSum([k \in 1..n |-> scores[k] * scores[k]])
         IN  << Frac(s, 5 * n),
                Frac(n * sq - s * s, 5 * n * n),
                Frac(SeqMin(scores), 5),
                Frac(SeqSum(confs), 10 * n),
                Frac(round, EncoderMaxRounds),
                <<0, 1>> >>

\* StateEncoder.encode: six features, each an exact fraction (numpy computes them in
\* float64 and rounds to float32, which is not modelled)
encode(revs, round) ==
    IF revs = <<>>
    THEN [k \in 1..6 |-> <<0, 1>>]
    ELSE LET n == Len(revs)
             scores == [k \in 1..n |-> revs[k].score]
             confs == [k \in 1..n |-> revs[k].conf]
             s == SeqSum(scores)
             sq == SeqSum([k \in 1..n |-> scores[k] * scores[k]])
         IN  << Frac(s, 5 * n),
                Frac(n * sq - s * s, 5 * n * n),
                Frac(SeqMin(scores), 5),
                Frac(SeqSum(confs), 10 * n),
                IF round >= EncoderMaxRounds THEN <<1, 1>> ELSE Frac(round, EncoderMaxRounds),
                <<0, 1>> >>

(* --------------------------- the controller --------------------------- *)

\* parameter settings of the value network that the runs start from (DQN.default()
\* draws them at random); b and w give each of the three outputs a bias and a weight
ParamSet ==
    { [b |-> <<1, 0, 0>>, w |-> <<0, 0, 0>>],
      [b |-> <<0, 0, 0>>, w |-> <<0, 1, 0>>],
      [b |-> <<0, 0, 1>>, w |-> <<0, 0, 0>>] }

\* DQN.forward: three action values, a deterministic function of the parameters and the
\* state vector. The two hidden layers are abstracted to an affine map of the
\* round-progress feature x[5], scaled by its denominator.
forward(params, x) == [a \in 1..3 |-> params.b[a] * x[5][2] + params.w[a] * x[5][1]]

\* torch.argmax: the index (from 0) of the first maximal value
argmax(q) ==
    (CHOOSE k \in 1..Len(q) : /\ \A j \in 1..Len(q) : q[j] <= q[k]
                              /\ \A j \in 1..(k - 1) : q[j] < q[k]) - 1

\* select_action restricted to the two actions Submit and Debate
select_action_two(q, epsilon, r, c) ==
    IF r < epsilon THEN <<0, 1>>[((c - 1) % 2) + 1] ELSE argmax(SubSeq(q, 1, 2))

\* select_action exploring when random.random() <= epsilon
select_action_le(q, epsilon, r, c) ==
    IF r <= epsilon THEN ActionSpace[c] ELSE argmax(q)

\* DQNAgent.select_action: r is the value of random.random(), c the position that
\* random.choice draws in action_space
select_action(q, epsilon, r, c) ==
    IF r < epsilon THEN ActionSpace[c] ELSE argmax(q)

\* every action select_action can return on q with exploration rate epsilon
SelectActionSet(q, epsilon) ==
    {select_action(q, epsilon, r, c) : r \in RandomDraws, c \in 1..Len(ActionSpace)}

\* DQNAgent.gamma, in hundredths
Gamma == 95

SeqMax(s) == CHOOSE m \in {s[k] : k \in 1..Len(s)} : \A k \in 1..Len(s) : m >= s[k]

\* update_policy, step 4: the attribute of the controller whose forward pass on
\* batch_next_state gives next_q_values
NextValueNet == "policy_net"

\* update_policy, step 4, for one transition of the batch: expected_q, in hundredths,
\* from the network net that gives the next-state values
expected_q(net, tr) ==
    LET next_q_values == forward(net, tr.next_state)
        max_next_q == SeqMax(next_q_values)
        batch_done == IF tr.terminal THEN 1 ELSE 0
    IN  100 * tr.reward + Gamma * max_next_q * (1 - batch_done)

\* update_policy giving up also on a buffer of exactly batch_size transitions
update_returns_none_le(mem, batch_size) == Len(mem) <= batch_size

\* update_policy, its first test: with too few transitions it returns None at once
update_returns_none(mem, batch_size) == Len(mem) < batch_size

\* store_transition evicting only once the buffer is over its capacity
store_transition_late(mem, tr) ==
    IF Len(mem) > BufferSize THEN Append(Tail(mem), tr) ELSE Append(mem, tr)

\* DQNAgent.store_transition: deque(maxlen=buffer_size).append
store_transition(mem, tr) ==
    IF Len(mem) >= BufferSize THEN Append(Tail(mem), tr) ELSE Append(mem, tr)

RECURSIVE StoreAll(_, _)
StoreAll(mem, trs) ==
    IF trs = <<>> THEN mem ELSE StoreAll(store_transition(mem, Head(trs)), Tail(trs))

(* ----------------------------- the router ----------------------------- *)

\* route_after_decision with only action 1 looping back
route_debate_only(round, action, max_rounds) ==
    IF round > max_rounds THEN "end"
    ELSE IF action = 1 THEN "debate_fanout"
    ELSE "end"

\* route_after_decision without the max_rounds cutoff
route_no_cutoff(round, action, max_rounds) ==
    IF action = 1 \/ action = 2 THEN "debate_fanout" ELSE "end"

\* route_after_decision(state), on state.current_round, state.dqn_action and the
\* configured max_rounds
route_after_decision(round, action, max_rounds) ==
    IF round > max_rounds THEN "end"
    ELSE IF action = 1 \/ action = 2 THEN "debate_fanout"
    ELSE "end"

(* ----------------------------- the harness ---------------------------- *)

\* training.epsilon_start and training.epsilon_end of config.yaml, in thousandths
EpsilonStart == 1000

EpsilonEnd == 50

\* math.exp(-k) in thousandths, for k = 0, 1, 2, ...
ExpNegTable == <<1000, 368, 135, 50, 18, 7, 2, 1>>

ExpNeg(k) == IF k + 1 <= Len(ExpNegTable) THEN ExpNegTable[k + 1] ELSE 0

\* get_epsilon(episode_idx), in thousandths, for training.epsilon_decay = 1
get_epsilon(episode_idx) ==
    EpsilonEnd + ((EpsilonStart - EpsilonEnd) * ExpNeg(episode_idx)) \div 1000

\* calculate_reward: <<total, pred_score>>, total in sixtieths, pred_score a fraction
calculate_reward(final_reviews, final_round, ground_truth_score) ==
    IF final_reviews = <<>>
    THEN <<-60, <<0, 1>>>>
    ELSE LET last_reviews == LastN(final_reviews, RewardAgents)
             n == Len(last_reviews)
             s == SeqSum([k \in 1..n |-> last_reviews[k].score])
             error24 == Abs((24 \div n) * s - 24 * ground_truth_score)
             acc_reward == Max2(0, 60 - error24)
             actual_rounds == Max2(1, final_round - 1)
             eff_penalty == 3 * (actual_rounds - 1)
         IN  <<acc_reward - eff_penalty, Frac(s, n)>>

\* the transitions with the terminal flag on the first step instead of the last
MaterializeFirstTerminal(trace, reward) ==
    [t \in 1..Len(trace) |->
        [state |-> trace[t][1], action |-> trace[t][2],
         reward |-> IF t = 1 THEN reward ELSE 0,
         next_state |-> IF t # Len(trace) THEN trace[t + 1][1] ELSE trace[t][1],
         terminal |-> (t = 1)]]

\* the transitions with the episode reward on every step
MaterializeDenseReward(trace, reward) ==
    [t \in 1..Len(trace) |->
        [state |-> trace[t][1], action |-> trace[t][2],
         reward |-> reward,
         next_state |-> IF t # Len(trace) THEN trace[t + 1][1] ELSE trace[t][1],
         terminal |-> (t = Len(trace))]]

\* train(), the loop over the trace: the arguments of its store_transition calls
Materialize(trace, reward) ==
    [t \in 1..Len(trace) |->
        LET is_last == (t = Len(trace))
        IN  [state |-> trace[t][1], action |-> trace[t][2],
             reward |-> IF is_last THEN reward ELSE 0,
             next_state |-> IF ~is_last THEN trace[t + 1][1] ELSE trace[t][1],
             terminal |-> is_last]]

(* ------------------------------- states ------------------------------- *)

NoArg == [fn |-> "none"]

NoWrites == [a \in Roles |-> <<>>]

\* no controller pass yet
NoCall == [epsilon |-> -1, encoded |-> <<>>]

\* the controller as workflow/dqn_node.py constructs it, DQNAgent()
AgentInit ==
    /\ policy_net \in ParamSet
    /\ memory = <<>>
    /\ optimizer = "fresh"

\* the values given before the first episode to what an episode sets
RunStateInit ==
    /\ submission = 0
    /\ reviews = <<>>
    /\ current_round = 1
    /\ dqn_action = -1
    /\ dqn_trace = <<>>
    /\ done = {}
    /\ writes = NoWrites
    /\ history = NoWrites
    /\ seen = NoWrites
    /\ passes = 0
    /\ all_debate = TRUE
    /\ crashed = {}
    /\ dqn_call = NoCall
    /\ stored = <<>>

\* the essay sets of the corpus (metadata["set_id"]), two of them
SetIds == {1, 2}

\* the values of run_mode
RunModes == {"production", "mock_training"}

\* the keys of agents_cache, f"set_{set_id}_{name}", as pairs
Keys == SetIds \X Roles

\* no evaluator
NoAgent == [kind |-> "none", id |-> 0]

\* a role node that is not in get_agent_by_name
NoLookup == [at |-> "idle", set_id |-> 0, k |-> 0, got |-> NoAgent]

\* AgentFactory(): the cache is empty, nothing was read or constructed
FactoryCold ==
    /\ agents_cache = [key \in Keys |-> NoAgent]
    /\ lookup = [a \in Roles |-> NoLookup]
    /\ rubric_reads = [sid \in SetIds |-> 0]
    /\ constructed = [key \in Keys |-> 0]
    /\ returned = [key \in Keys |-> {}]

\* the registry when a run with language-model evaluators starts
FactoryInit ==
    /\ run_mode = "production"
    /\ max_rounds_cfg = MaxRounds
    /\ FactoryCold

\* train() up to its for loop, with no checkpoint file (load_checkpoint returns 0)
Init ==
    /\ pc = "loop"
    /\ i = 0
    /\ AgentInit
    /\ RunStateInit
    /\ metrics_log = <<>>
    /\ checkpoint = <<>>
    /\ load = "no_file"
    /\ snapshot = <<>>
    /\ aborted = 0
    /\ FactoryInit
    /\ arg = NoArg
    /\ ret = NoArg

agentVars == <<policy_net, memory, optimizer>>
fnVars == <<arg, ret>>
runVars == <<submission, reviews, current_round, dqn_action, dqn_trace>>
stepVars == <<done, writes, history, seen>>
ghostVars == <<passes, all_debate, crashed, dqn_call>>
factoryVars == <<run_mode, max_rounds_cfg, agents_cache, lookup, rubric_reads, constructed, returned>>

(* ------------------------------ the graph ----------------------------- *)

\* train(), lines B and C of the loop body: the initial state and mas_graph.invoke,
\* which enters debate_fanout. Of the keys of the initial state the graph keeps those
\* GraphState declares: "epsilon" and "dqn_trace" are not among them.
StartEpisode ==
    /\ pc = "loop"
    /\ i < TotalEpisodes
    /\ \E gt \in GtVals : submission' = gt
    /\ reviews' = <<>>
    /\ current_round' = 1
    /\ dqn_action' = -1
    /\ dqn_trace' = <<>>
    /\ done' = {}
    /\ writes' = NoWrites
    /\ history' = NoWrites
    /\ seen' = NoWrites
    /\ passes' = 0
    /\ all_debate' = TRUE
    /\ crashed' = {}
    /\ dqn_call' = NoCall
    /\ stored' = <<>>
    /\ pc' = "fanout"
    /\ UNCHANGED <<i, agentVars, metrics_log, checkpoint, load, aborted, snapshot, factoryVars, fnVars>>

\* debate_fanout_node: returns {}; its edges start every role node
debate_fanout_node ==
    /\ pc = "fanout"
    /\ pc' = "agents"
    /\ done' = {}
    /\ writes' = NoWrites
    /\ history' = NoWrites
    /\ seen' = NoWrites
    /\ UNCHANGED <<i, runVars, agentVars, metrics_log, checkpoint, ghostVars, stored, aborted, load, snapshot, factoryVars, fnVars>>

RECURSIVE ConcatWrites(_, _)
ConcatWrites(w, names) ==
    IF names = <<>> THEN <<>> ELSE w[Head(names)] \o ConcatWrites(w, Tail(names))

\* a role node reading the reviews together with what its peers have returned so far
reviews_seen_live(revs, w) == revs \o ConcatWrites(w, AgentNames)

\* state.get("reviews", []) in a role node: the node is given the state as it was when
\* its superstep began, without the buffered returns w of the nodes running beside it
reviews_seen(revs, w) == revs

\* the role value a language model may put into its structured output
LlmRoles == Roles \cup {"other"}

\* GenericAgent.run keeping the role the language model returned
run_role_kept(role_name, result_role) == result_role

\* GenericAgent.run, step 4: the role of the critique it returns
run_role(role_name, result_role) ==
    IF result_role # role_name THEN role_name ELSE result_role

\* the reducer putting the new critiques in front
operator_add_front(old, new) == new \o old

\* operator.add, the reducer of GraphState.reviews
operator_add(old, new) == old \o new

\* _get_latest_peer_reviews
get_latest_peer_reviews(revs) ==
    IF revs = <<>> THEN <<>>
    ELSE IF Len(revs) >= NumAgents THEN LastN(revs, NumAgents) ELSE <<>>

\* the history _run_generic_agent passes on
node_history(revs, round) == IF round > 1 THEN get_latest_peer_reviews(revs) ELSE <<>>

\* _run_generic_agent with an evaluator that returns a critique: GenericAgent.run sets
\* the critique's role; the node returns {"reviews": [result]}. The fields node and rnd
\* of a critique are history: the node that returned it and the round it ran in.
RoleNodeReturns(a) ==
    /\ pc = "agents"
    /\ a \notin done
    /\ \E s \in ScoreVals, result_role \in LlmRoles :
         writes' = [writes EXCEPT ![a] =
                       <<[node |-> a, role |-> run_role(a, result_role),
                          rnd |-> current_round, score |-> s, conf |-> 9]>>]
    /\ seen' = [seen EXCEPT ![a] = reviews_seen(reviews, writes)]
    /\ history' = [history EXCEPT ![a] = node_history(seen'[a], current_round)]
    /\ done' = done \cup {a}
    /\ pc' = "agents"
    /\ UNCHANGED <<i, runVars, agentVars, metrics_log, checkpoint, ghostVars, stored, aborted, load, snapshot, factoryVars, fnVars>>

\* _run_generic_agent with an evaluator that raises (GenericAgent.run re-raises what
\* the chain raised): the node prints and returns {}
RoleNodeEvaluatorRaises(a) ==
    /\ pc = "agents"
    /\ a \notin done
    /\ seen' = [seen EXCEPT ![a] = reviews_seen(reviews, writes)]
    /\ history' = [history EXCEPT ![a] = node_history(seen'[a], current_round)]
    /\ crashed' = crashed \cup {a}
    /\ done' = done \cup {a}
    /\ pc' = "agents"
    /\ UNCHANGED <<i, runVars, agentVars, metrics_log, checkpoint, writes, passes, all_debate,
                   dqn_call, stored,
                   aborted, load, snapshot, factoryVars, fnVars>>

\* _run_generic_agent when agent_factory.get_agent_by_name raises (the evaluator cannot
\* be built): the call is outside the try, the exception leaves the node and invoke
RoleNodeFactoryRaises(a) ==
    /\ pc = "agents"
    /\ a \notin done
    /\ pc' = "raised"
    /\ UNCHANGED <<i, runVars, agentVars, metrics_log, checkpoint, stepVars, ghostVars, stored,
                   aborted, load, snapshot, factoryVars, fnVars>>

\* the end of the role nodes' superstep: the reducer operator.add of GraphState.reviews
\* appends the buffered returns, in the order of the nodes; dqn_decision is next
Barrier ==
    /\ pc = "agents"
    /\ done = Roles
    /\ reviews' = operator_add(reviews, ConcatWrites(writes, AgentNames))
    /\ pc' = "dqn"
    /\ UNCHANGED <<i, submission, current_round, dqn_action, dqn_trace, agentVars,
                   metrics_log, checkpoint, stepVars, ghostVars, stored, aborted, load, snapshot, factoryVars, fnVars>>

\* the controller node advancing the round counter by two
current_round_plus_two(current_round_) == current_round_ + 2

\* the "current_round" entry of the update dqn_decision_node returns
current_round_update(current_round_) == current_round_ + 1

\* the keys of the update dqn_decision_node returns
DqnNodeReturnKeys == {"dqn_action", "current_round", "dqn_debug_info"}

\* dqn_decision_node, then route_after_decision on the updated state
dqn_decision_node ==
    /\ pc = "dqn"
    /\ current_round <= RoundCap
    /\ \E r \in RandomDraws, c \in 1..Len(ActionSpace) :
         LET state_tensor == encode(reviews, current_round)
             q_values == forward(policy_net, state_tensor)
             action == select_action(q_values, NodeEpsilon, r, c)
         IN  /\ dqn_action' = action
             /\ current_round' = current_round_update(current_round)
             /\ dqn_trace' = IF "dqn_trace" \in DqnNodeReturnKeys
                             THEN Append(dqn_trace, <<state_tensor, action>>)
                             ELSE dqn_trace
             /\ dqn_call' = [epsilon |-> NodeEpsilon, encoded |-> reviews]
             /\ all_debate' = (all_debate /\ action = 1)
             /\ pc' = IF route_after_decision(current_round', action, max_rounds_cfg) = "end"
                      THEN "end" ELSE "fanout"
    /\ passes' = passes + 1
    /\ UNCHANGED <<i, submission, reviews, agentVars, metrics_log, checkpoint, stepVars, crashed,
                   stored, aborted, load, snapshot, factoryVars, fnVars>>

(* ----------------------------- the harness ---------------------------- *)

\* the run state of an episode is not read again once the episode is over: the next
\* episode builds a new one
RunStateDropped ==
    /\ submission' = 0
    /\ reviews' = <<>>
    /\ current_round' = 1
    /\ dqn_action' = -1
    /\ dqn_trace' = <<>>
    /\ done' = {}
    /\ writes' = NoWrites
    /\ history' = NoWrites
    /\ seen' = NoWrites
    /\ passes' = 0
    /\ all_debate' = TRUE
    /\ crashed' = {}
    /\ dqn_call' = NoCall

\* train(), the try body after invoke returned final_state: reward, transitions,
\* update_policy, every tenth episode save_checkpoint, the metrics row. When torch.save
\* raises in save_checkpoint the except branch of the episode is taken and the row is
\* not appended.
HarnessSettle ==
    /\ pc = "end"
    /\ LET reward == calculate_reward(reviews, current_round, submission)[1]
           trs == Materialize(dqn_trace, reward)
           mem == StoreAll(memory, trs)
           loss == IF update_returns_none(mem, BatchSize) THEN "None" ELSE "value"
           due == ((i + 1) % CheckpointEvery = 0)
       IN  /\ stored' = trs
           /\ memory' = mem
           /\ IF update_returns_none(mem, BatchSize)
              THEN policy_net' = policy_net /\ optimizer' = optimizer
              ELSE policy_net' \in ParamSet /\ optimizer' = "stepped"
           /\ \E saved \in BOOLEAN :
                /\ (~due => saved)
                /\ checkpoint' = IF due /\ saved
                                 THEN <<[readable |-> TRUE, episode |-> i,
                                         model_state_dict |-> policy_net',
                                         optimizer_state_dict |-> optimizer']>>
                                 ELSE checkpoint
                /\ metrics_log' = IF saved
                                  THEN Append(metrics_log,
                                         [episode |-> i, reward |-> "value", loss |-> loss])
                                  ELSE metrics_log
                /\ aborted' = IF saved THEN aborted ELSE aborted + 1
    /\ i' = i + 1
    /\ pc' = "loop"
    /\ RunStateDropped
    /\ UNCHANGED <<load, snapshot, factoryVars, fnVars>>

\* train() without the try around the episode: the exception ends the run
AfterExceptPropagate == "crashed"

\* train(), where the except branch of the episode leaves the run: in the for loop
AfterExcept == "loop"

\* train(), the except branch: invoke raised, the error is printed and the loop goes on
HarnessExcept ==
    /\ pc = "raised"
    /\ pc' = AfterExcept
    /\ i' = i + 1
    /\ aborted' = aborted + 1
    /\ stored' = <<>>
    /\ RunStateDropped
    /\ UNCHANGED <<agentVars, metrics_log, checkpoint, load, snapshot, factoryVars, fnVars>>

\* train() after the loop: the log and the final weights are written, outside any try;
\* when global_dqn_agent.save (torch.save) raises, the exception leaves train()
Finish ==
    /\ pc = "loop"
    /\ i >= TotalEpisodes
    /\ \E saved \in BOOLEAN : pc' = IF saved THEN "finished" ELSE "crashed"
    /\ UNCHANGED <<i, runVars, agentVars, metrics_log, checkpoint, stepVars, ghostVars, stored,
                   aborted, load, snapshot, factoryVars, fnVars>>

Next ==
    \/ StartEpisode
    \/ debate_fanout_node
    \/ \E a \in Roles : RoleNodeReturns(a)
    \/ \E a \in Roles : RoleNodeEvaluatorRaises(a)
    \/ \E a \in Roles : RoleNodeFactoryRaises(a)
    \/ Barrier
    \/ dqn_decision_node
    \/ HarnessSettle
    \/ HarnessExcept
    \/ Finish

Spec == Init /\ [][Next]_vars

\* the scheduling of the graph engine and of the for loop: a step that can be taken is
\* taken
FairSpec == Spec /\ WF_vars(Next)

(* ------------------- functions applied on their own ------------------- *)

\* action values the value network may produce
QVecs == [1..3 -> {-1, 0, 1}]

RouteArgs ==
    {[fn |-> "route", round |-> r, action |-> a, max_rounds |-> m] :
        r \in 1..(RoundCap + 1), a \in -1..3, m \in 1..(MaxRounds + 1)}

SelectArgs == {[fn |-> "select", q |-> q, epsilon |-> e] : q \in QVecs, e \in EpsVals}

\* two state vectors of an episode
StateVecs == {encode(<<>>, 1), encode(<<[score |-> 4, conf |-> 9]>>, 2)}

\* transitions of a batch
TargetArgs ==
    {[fn |-> "target",
      tr |-> [state |-> encode(<<>>, 1), action |-> a, reward |-> rw, next_state |-> x,
              terminal |-> t]] :
        a \in {0, 1}, rw \in {0, 60}, x \in StateVecs, t \in BOOLEAN}

\* critiques as the schema admits them: overall_score of 0..5, confidence of 0..1 (in
\* tenths)
EncodeCritiques == {[score |-> sc, conf |-> cf] : sc \in {0, 2, 5}, cf \in {0, 9, 10}}

\* the rounds at which the round feature is below, at and over its cap
EncodeRounds == {1, EncoderMaxRounds, EncoderMaxRounds + 1}

EncodeArgs ==
    {[fn |-> "encode", revs |-> revs, round |-> rd] :
        revs \in UNION {[1..n -> EncodeCritiques] : n \in 0..NumAgents},
        rd \in EncodeRounds}

\* ---- the Mock Evaluator (agents/mock_agent.py); its scores are in hundredths ----

\* np.random.normal(0, noise_level): the noise of a blind guess
NoiseDraws == {-600, 0, 100}

\* np.random.normal(0, 0.1): the jitter of an effective debate step
JitterDraws == {-10, 10}

\* np.random.normal(0, noise_level * 0.5): the drift of an ineffective debate step
WobbleDraws == {-50, 50}

Clamp05(x) == IF x < 0 THEN 0 ELSE IF x > 500 THEN 500 ELSE x

\* MockAgent.run, step 1: the ground truth on the 0-5 scale
mock_gt(raw_score, max_score) ==
    Clamp05((raw_score * 500) \div (IF max_score = 0 THEN 10 ELSE max_score))

\* the first critique of previous_reviews, whatever its role
mock_last_me_first(role_name, previous_reviews) == 1

\* MockAgent.run: last_me = next((r for r in previous_reviews if r.role ==
\* self.role_name), None), as the index of that critique, 0 for None
mock_last_me(role_name, previous_reviews) ==
    IF \E k \in 1..Len(previous_reviews) : previous_reviews[k].role = role_name
    THEN CHOOSE k \in 1..Len(previous_reviews) :
            /\ previous_reviews[k].role = role_name
            /\ \A j \in 1..(k - 1) : previous_reviews[j].role # role_name
    ELSE 0

\* MockAgent.run with its random draws given: noise, whether the debate step is
\* effective (random.random() < convergence_rate), jitter and wobble; the convergence
\* speed is the default 0.5. The field last_me is history: the critique the step began
\* from.
mock_run(role_name, raw_score, max_score, previous_reviews, noise, effective, jitter, wobble) ==
    LET gt_score == mock_gt(raw_score, max_score)
        last_me == IF previous_reviews = <<>> THEN 0
                   ELSE mock_last_me(role_name, previous_reviews)
        last_score == IF last_me # 0 THEN previous_reviews[last_me].overall_score
                      ELSE gt_score + noise
        current_score ==
            IF previous_reviews = <<>> THEN gt_score + noise
            ELSE IF effective THEN last_score + ((gt_score - last_score) \div 2) + jitter
            ELSE last_score + wobble
        clamped == Clamp05(current_score)
    IN  [role |-> role_name, overall_score |-> clamped, confidence |-> 9,
         scores |-> <<[indicator |-> "Mock_Metric", score |-> clamped]>>,
         last_me |-> last_me]

\* the critiques a Mock Evaluator may be handed: scores whose distance to a ground
\* truth halves without a remainder
MockCritiques == {[role |-> a, overall_score |-> sc] : a \in Roles, sc \in {100, 400}}

MockArgs ==
    {[fn |-> "mock", role_name |-> a, raw_score |-> raw, max_score |-> mx,
      previous_reviews |-> prev] :
        a \in Roles, raw \in {0, 6, 12}, mx \in {0, 10},
        prev \in UNION {[1..n -> MockCritiques] : n \in 0..NumAgents}}

FnInit ==
    /\ pc = "loop"
    /\ i = 0
    /\ AgentInit
    /\ RunStateInit
    /\ metrics_log = <<>>
    /\ checkpoint = <<>>
    /\ load = "no_file"
    /\ snapshot = <<>>
    /\ aborted = 0
    /\ FactoryInit
    /\ arg \in RouteArgs \cup SelectArgs \cup TargetArgs \cup EncodeArgs \cup MockArgs
    /\ ret = NoArg

ApplyRoute ==
    /\ arg.fn = "route"
    /\ ret = NoArg
    /\ ret' = [fn |-> "route",
               val |-> route_after_decision(arg.round, arg.action, arg.max_rounds)]
    /\ UNCHANGED <<pc, i, runVars, agentVars, metrics_log, checkpoint, stepVars, ghostVars, stored,
                   aborted, load, snapshot, factoryVars, arg>>

ApplySelect ==
    /\ arg.fn = "select"
    /\ ret = NoArg
    /\ \E r \in RandomDraws, c \in 1..Len(ActionSpace) :
         ret' = [fn |-> "select", val |-> select_action(arg.q, arg.epsilon, r, c)]
    /\ UNCHANGED <<pc, i, runVars, agentVars, metrics_log, checkpoint, stepVars, ghostVars, stored,
                   aborted, load, snapshot, factoryVars, arg>>

\* update_policy's Bellman target for one transition, with the controller's networks
ApplyTarget ==
    /\ arg.fn = "target"
    /\ ret = NoArg
    /\ ret' = [fn |-> "target", net |-> NextValueNet, val |-> expected_q(policy_net, arg.tr)]
    /\ UNCHANGED <<pc, i, runVars, agentVars, metrics_log, checkpoint, stepVars, ghostVars, stored,
                   aborted, load, snapshot, factoryVars, arg>>

\* state_encoder.encode(reviews, current_round)
ApplyEncode ==
    /\ arg.fn = "encode"
    /\ ret = NoArg
    /\ ret' = [fn |-> "encode", val |-> encode(arg.revs, arg.round)]
    /\ UNCHANGED <<pc, i, runVars, agentVars, metrics_log, checkpoint, stepVars, ghostVars, stored,
                   aborted, load, snapshot, factoryVars, arg>>

\* MockAgent(role_name).run(subject, previous_reviews)
ApplyMock ==
    /\ arg.fn = "mock"
    /\ ret = NoArg
    /\ \E noise \in NoiseDraws, effective \in BOOLEAN, jitter \in JitterDraws,
          wobble \in WobbleDraws :
         ret' = [fn |-> "mock",
                 val |-> mock_run(arg.role_name, arg.raw_score, arg.max_score,
                                  arg.previous_reviews, noise, effective, jitter, wobble)]
    /\ UNCHANGED <<pc, i, runVars, agentVars, metrics_log, checkpoint, stepVars, ghostVars, stored,
                   aborted, load, snapshot, factoryVars, arg>>

FnNext == ApplyRoute \/ ApplySelect \/ ApplyTarget \/ ApplyEncode \/ ApplyMock

FnSpec == FnInit /\ [][FnNext]_vars

(* --------------- the harness on a final state it is given -------------- *)

TraceEntries == {<<x, a>> : x \in StateVecs, a \in {0, 1, 2}}

\* the dqn_trace of a final state: up to MaxRounds controller passes
Traces == UNION {[1..n -> TraceEntries] : n \in 0..MaxRounds}

\* the reviews of a final state: none, or the critiques of one round
FinalReviews ==
    {<<>>} \cup
    {[k \in 1..NumAgents |->
        [node |-> AgentNames[k], role |-> AgentNames[k], rnd |-> 1, score |-> f[k],
         conf |-> 9]] :
        f \in [1..NumAgents -> ScoreVals]}

OldTransition ==
    [state |-> encode(<<>>, 1), action |-> 0, reward |-> 0,
     next_state |-> encode(<<>>, 1), terminal |-> TRUE]

\* the replay buffer before the episode: empty, or one short of full
BufferInits == {<<>>, [k \in 1..(BufferSize - 1) |-> OldTransition]}

\* train() at the return of mas_graph.invoke, on a final state that carries a trace
HarnessInit ==
    /\ pc = "end"
    /\ i \in {0, CheckpointEvery - 1}
    /\ policy_net \in ParamSet
    /\ memory \in BufferInits
    /\ optimizer = "fresh"
    /\ submission \in GtVals
    /\ reviews \in FinalReviews
    /\ dqn_trace \in Traces
    /\ current_round = Len(dqn_trace) + 1
    /\ dqn_action = IF dqn_trace = <<>> THEN -1 ELSE dqn_trace[Len(dqn_trace)][2]
    /\ done = Roles
    /\ writes = NoWrites
    /\ history = NoWrites
    /\ seen = NoWrites
    /\ passes = Len(dqn_trace)
    /\ all_debate = \A t \in 1..Len(dqn_trace) : dqn_trace[t][2] = 1
    /\ crashed = {}
    /\ dqn_call = IF dqn_trace = <<>> THEN NoCall
                  ELSE [epsilon |-> NodeEpsilon, encoded |-> reviews]
    /\ stored = <<>>
    /\ metrics_log = <<>>
    /\ checkpoint = <<>>
    /\ load = "no_file"
    /\ snapshot = <<>>
    /\ aborted = 0
    /\ FactoryInit
    /\ arg = NoArg
    /\ ret = NoArg

HarnessNext == HarnessSettle

HarnessSpec == HarnessInit /\ [][HarnessNext]_vars

(* ------------------- the replay buffer on its own --------------------- *)

\* two transitions that can be told apart
StoreVals ==
    {[state |-> encode(<<>>, 1), action |-> a, reward |-> 0, next_state |-> encode(<<>>, 1),
      terminal |-> FALSE] : a \in {0, 1}}

\* store_transition calls made on one buffer: enough to pass its capacity twice
MaxStores == BufferSize + 2

\* the controller as constructed, its buffer empty
BufferInit ==
    /\ pc = "loop"
    /\ i = 0
    /\ AgentInit
    /\ RunStateInit
    /\ metrics_log = <<>>
    /\ checkpoint = <<>>
    /\ load = "no_file"
    /\ snapshot = <<>>
    /\ aborted = 0
    /\ FactoryInit
    /\ arg = NoArg
    /\ ret = NoArg

\* one call of DQNAgent.store_transition; stored keeps every call made
StoreStep ==
    /\ Len(stored) < MaxStores
    /\ \E tr \in StoreVals :
         /\ memory' = store_transition(memory, tr)
         /\ stored' = Append(stored, tr)
    /\ UNCHANGED <<pc, i, runVars, policy_net, optimizer, metrics_log, checkpoint, stepVars,
                   ghostVars, aborted, load, snapshot, factoryVars, fnVars>>

BufferNext == StoreStep

BufferSpec == BufferInit /\ [][BufferNext]_vars

(* ------------------------ the start of train() ----------------------- *)

\* the attributes DQNAgent.__init__ sets on the controller
AgentAttrs == {"policy_net", "optimizer", "memory", "gamma", "action_space"}

\* the contents a checkpoint file may have when train() starts: readable says whether
\* torch.load can read it; the optimizer state is one an optimizer accepts ("stepped")
\* or not ("malformed")
CheckpointFiles ==
    {[readable |-> b, episode |-> e, model_state_dict |-> p, optimizer_state_dict |-> o] :
        b \in BOOLEAN, e \in {0, CheckpointEvery - 1}, p \in ParamSet,
        o \in {"stepped", "malformed"}}

\* load_checkpoint letting the exception of a failed load leave train()
AfterLoadExceptPropagate == "crashed"

\* load_checkpoint, its except branch: it prints, returns 0, and train() goes on
AfterLoadExcept == "loop"

\* load_checkpoint(global_dqn_agent) as train() calls it; i' is the start_episode it
\* returns. The statements of the try block run in order until one raises: torch.load,
\* policy_net.load_state_dict, agent.target_net (an attribute the controller does not
\* have), optimizer.load_state_dict, checkpoint['episode'] + 1.
load_checkpoint ==
    /\ pc = "start"
    /\ IF checkpoint = <<>>
       THEN /\ load' = "no_file"
            /\ i' = 0
            /\ pc' = "loop"
            /\ UNCHANGED <<policy_net, optimizer>>
       ELSE LET ckpt == checkpoint[1]
                read == ckpt.readable
                target == read /\ "target_net" \in AgentAttrs
                done_ == target /\ ckpt.optimizer_state_dict # "malformed"
            IN  /\ policy_net' = IF read THEN ckpt.model_state_dict ELSE policy_net
                /\ optimizer' = IF done_ THEN ckpt.optimizer_state_dict ELSE optimizer
                /\ load' = IF done_ THEN "loaded" ELSE "failed"
                /\ i' = IF done_ THEN ckpt.episode + 1 ELSE 0
                /\ pc' = IF done_ THEN "loop" ELSE AfterLoadExcept
    /\ UNCHANGED <<runVars, stepVars, ghostVars, memory, metrics_log, checkpoint, stored,
                   aborted, snapshot, factoryVars, fnVars>>

\* train() when it is started: the controller is the one dqn_node.py constructed, and a
\* checkpoint file may be there from an earlier run
StartInit ==
    /\ pc = "start"
    /\ i = 0
    /\ AgentInit
    /\ RunStateInit
    /\ metrics_log = <<>>
    /\ checkpoint \in {<<>>} \cup {<<f>> : f \in CheckpointFiles}
    /\ load = "pending"
    /\ snapshot = <<>>
    /\ aborted = 0
    /\ FactoryInit
    /\ arg = NoArg
    /\ ret = NoArg

\* train() from its start to the first episode of its loop
StartNext == load_checkpoint \/ StartEpisode

StartSpec == StartInit /\ [][StartNext]_vars

(* ------------------- a run ended and started again -------------------- *)

\* the process is ended after an episode that wrote a checkpoint, and train() is started
\* again: dqn_node.py constructs a new controller, train() a new metrics_log; the
\* checkpoint file is what the ended process left
Interrupt ==
    /\ pc = "loop"
    /\ checkpoint # <<>>
    /\ snapshot = <<>>
    /\ snapshot' = <<[i |-> i, policy_net |-> policy_net, optimizer |-> optimizer,
                      memory |-> memory]>>
    /\ pc' = "start"
    /\ i' = 0
    /\ policy_net' \in ParamSet
    /\ memory' = <<>>
    /\ optimizer' = "fresh"
    /\ metrics_log' = <<>>
    /\ load' = "pending"
    /\ UNCHANGED <<runVars, stepVars, ghostVars, checkpoint, stored, aborted, factoryVars,
                   fnVars>>

\* train() from the end of an episode in which a checkpoint is due, then ended and
\* started again up to the first episode of the new process
ResumeInit ==
    /\ HarnessInit
    /\ i = CheckpointEvery - 1

ResumeNext == HarnessSettle \/ Interrupt \/ load_checkpoint \/ StartEpisode

ResumeSpec == ResumeInit /\ [][ResumeNext]_vars

(* ------------------- an episode with one round more ------------------- *)

\* train() up to its for loop, in a run whose configuration allows one round more than
\* MaxRounds
DebateInit ==
    /\ pc = "loop"
    /\ i = 0
    /\ AgentInit
    /\ RunStateInit
    /\ metrics_log = <<>>
    /\ checkpoint = <<>>
    /\ load = "no_file"
    /\ snapshot = <<>>
    /\ aborted = 0
    /\ run_mode = "production"
    /\ max_rounds_cfg = MaxRounds + 1
    /\ FactoryCold
    /\ arg = NoArg
    /\ ret = NoArg

\* the first episode of that run, from the initial state to the return of invoke
DebateNext ==
    \/ StartEpisode
    \/ debate_fanout_node
    \/ \E a \in Roles : RoleNodeReturns(a)
    \/ \E a \in Roles : RoleNodeEvaluatorRaises(a)
    \/ \E a \in Roles : RoleNodeFactoryRaises(a)
    \/ Barrier
    \/ dqn_decision_node

DebateSpec == DebateInit /\ [][DebateNext]_vars

(* ---------------------------- the registry ---------------------------- *)

\* AgentFactory.get_agents, the class of the evaluator it constructs: GenericAgent,
\* whatever run_mode is (the factory does not read run_mode)
evaluator_kind(mode) == "GenericAgent"

\* get_agents, rubric_content = self._load_rubric_content(set_id): in every mode
reads_rubric(mode) == TRUE

\* the role nodes of a superstep are started together, each in its own thread, on the
\* same submission; the first statement of each that touches the registry is
\* agent_factory.get_agent_by_name(agent_name, set_id=set_id)
LookupRound ==
    /\ \A a \in Roles : lookup[a].at \in {"idle", "done", "raised"}
    /\ \E sid \in SetIds :
         lookup' = [a \in Roles |-> [at |-> "check", set_id |-> sid, k |-> 0, got |-> NoAgent]]
    /\ UNCHANGED <<pc, i, runVars, agentVars, metrics_log, checkpoint, stepVars, ghostVars, stored,
                   aborted, load, snapshot, run_mode, max_rounds_cfg, agents_cache, rubric_reads, constructed,
                   returned, fnVars>>

\* get_agent_by_name: if key not in self.agents_cache
LookupCheck(a) ==
    /\ lookup[a].at = "check"
    /\ lookup' = [lookup EXCEPT ![a].at =
                     IF agents_cache[<<lookup[a].set_id, a>>] # NoAgent THEN "ret"
                     ELSE "get_agents"]
    /\ UNCHANGED <<pc, i, runVars, agentVars, metrics_log, checkpoint, stepVars, ghostVars, stored,
                   aborted, load, snapshot, run_mode, max_rounds_cfg, agents_cache, rubric_reads, constructed,
                   returned, fnVars>>

\* get_agents: if the key of content_expert is cached, the list of the cached evaluators
\* of the set is built (a KeyError when one of them is not stored yet, which leaves the
\* node: the call is outside its try); else the evaluators are going to be made
GetAgentsCheck(a) ==
    /\ lookup[a].at = "get_agents"
    /\ LET sid == lookup[a].set_id
       IN  lookup' = [lookup EXCEPT ![a].at =
                        IF agents_cache[<<sid, AgentNames[1]>>] = NoAgent THEN "load"
                        ELSE IF \A b \in Roles : agents_cache[<<sid, b>>] # NoAgent THEN "ret"
                        ELSE "raised"]
    /\ UNCHANGED <<pc, i, runVars, agentVars, metrics_log, checkpoint, stepVars, ghostVars, stored,
                   aborted, load, snapshot, run_mode, max_rounds_cfg, agents_cache, rubric_reads, constructed,
                   returned, fnVars>>

\* get_agents: rubric_content = self._load_rubric_content(set_id)
LoadRubric(a) ==
    /\ lookup[a].at = "load"
    /\ rubric_reads' = [rubric_reads EXCEPT ![lookup[a].set_id] =
                           IF reads_rubric(run_mode) THEN @ + 1 ELSE @]
    /\ lookup' = [lookup EXCEPT ![a].at = "build", ![a].k = 1]
    /\ UNCHANGED <<pc, i, runVars, agentVars, metrics_log, checkpoint, stepVars, ghostVars, stored,
                   aborted, load, snapshot, run_mode, max_rounds_cfg, agents_cache, constructed, returned, fnVars>>

\* get_agents, one turn of its for loop: an evaluator is constructed for the k-th agent
\* of the configuration and stored under its key. The id of an evaluator is history: it
\* tells the evaluators constructed for one key apart.
BuildAgent(a) ==
    /\ lookup[a].at = "build"
    /\ LET key == <<lookup[a].set_id, AgentNames[lookup[a].k]>>
       IN  /\ constructed' = [constructed EXCEPT ![key] = @ + 1]
           /\ agents_cache' = [agents_cache EXCEPT ![key] =
                                  [kind |-> evaluator_kind(run_mode), id |-> constructed'[key]]]
    /\ lookup' = IF lookup[a].k < NumAgents
                 THEN [lookup EXCEPT ![a].k = @ + 1]
                 ELSE [lookup EXCEPT ![a].at = "ret"]
    /\ UNCHANGED <<pc, i, runVars, agentVars, metrics_log, checkpoint, stepVars, ghostVars, stored,
                   aborted, load, snapshot, run_mode, max_rounds_cfg, rubric_reads, returned, fnVars>>

\* get_agent_by_name: return self.agents_cache[key]
LookupReturn(a) ==
    /\ lookup[a].at = "ret"
    /\ LET key == <<lookup[a].set_id, a>>
       IN  /\ lookup' = [lookup EXCEPT ![a].at = "done", ![a].got = agents_cache[key]]
           /\ returned' = [returned EXCEPT ![key] = @ \cup {agents_cache[key]}]
    /\ UNCHANGED <<pc, i, runVars, agentVars, metrics_log, checkpoint, stepVars, ghostVars, stored,
                   aborted, load, snapshot, run_mode, max_rounds_cfg, agents_cache, rubric_reads, constructed,
                   fnVars>>

\* a process in either run mode, its registry new
RegistryInit ==
    /\ pc = "loop"
    /\ i = 0
    /\ AgentInit
    /\ RunStateInit
    /\ metrics_log = <<>>
    /\ checkpoint = <<>>
    /\ load = "no_file"
    /\ snapshot = <<>>
    /\ aborted = 0
    /\ run_mode \in RunModes
    /\ max_rounds_cfg = MaxRounds
    /\ FactoryCold
    /\ arg = NoArg
    /\ ret = NoArg

RegistryNext ==
    \/ LookupRound
    \/ \E a \in Roles : LookupCheck(a)
    \/ \E a \in Roles : GetAgentsCheck(a)
    \/ \E a \in Roles : LoadRubric(a)
    \/ \E a \in Roles : BuildAgent(a)
    \/ \E a \in Roles : LookupReturn(a)

RegistrySpec == RegistryInit /\ [][RegistryNext]_vars

(* ------------------------------- claims ------------------------------- *)

InGraph == pc \in {"fanout", "agents", "dqn", "end"}

\* C1 (as stated): whenever the controller node is about to run, reviews holds
\* current_round * len(roles) critiques.
C1_RoundBarrier == pc = "dqn" => Len(reviews) = current_round * NumAgents

\* C2 (as stated): once a role node's evaluator has raised, the run is aborted: the
\* controller node does not run, no further round starts and no final state is returned.
C2_EvaluatorErrorAborts == crashed # {} => pc \notin {"dqn", "fanout", "end"}

\* C3: the replay buffer changes only in the step that settles a completed run; the
\* step that handles an aborted run leaves the buffer as it is and goes on to the next
\* episode of the loop.
C3_AbortKeepsBuffer ==
    [][ /\ (memory' # memory => pc = "end")
        /\ (pc = "raised" => /\ memory' = memory
                             /\ pc' = "loop"
                             /\ i' = i + 1) ]_vars

\* C3 witness: an episode is running after an earlier one aborted.
C3_Witness == aborted >= 1 /\ pc = "agents" /\ i >= 1

C5_RunTerminates ==
    /\ [](passes <= MaxRounds)
    /\ [](passes = MaxRounds => pc \notin {"fanout", "agents", "dqn"})
    /\ (pc = "fanout" ~> pc \in {"end", "raised"})

\* C5 witness: the cutoff ended a run whose last action asked for another round.
C5_Witness == pc = "end" /\ passes = MaxRounds /\ dqn_action \in {1, 2}

\* C6 (as stated): a run in which every pass chose Debate ends with
\* current_round = max_rounds + 1 and max_rounds * len(roles) reviews.
C6_AllDebateCutoff ==
    (pc = "end" /\ all_debate) =>
        /\ current_round = MaxRounds + 1
        /\ Len(reviews) = MaxRounds * NumAgents

\* C7 (as stated): dqn_trace holds one entry per controller pass, also in the final state.
C7_TracePerPass == InGraph => Len(dqn_trace) = passes

\* C8: settling a completed episode whose trace has n >= 1 entries makes n
\* store_transition calls, in trace order, the last one terminal and no other, each
\* next_state the state of the following entry and the last one its own state; the
\* buffer then ends with them.
C8_TransitionsFromTrace ==
    [][ (pc = "end" /\ pc' = "loop" /\ Len(dqn_trace) >= 1) =>
          LET n == Len(dqn_trace)
          IN  /\ Len(stored') = n
              /\ \A t \in 1..n :
                    /\ stored'[t].state = dqn_trace[t][1]
                    /\ stored'[t].action = dqn_trace[t][2]
                    /\ stored'[t].terminal = (t = n)
                    /\ (t < n => stored'[t].next_state = dqn_trace[t + 1][1])
                    /\ (t = n => stored'[t].next_state = dqn_trace[t][1])
              /\ memory' = LastN(memory \o stored', BufferSize) ]_vars

\* C8 witness: an episode was settled into several transitions, the last terminal.
C8_Witness ==
    /\ pc = "loop"
    /\ Len(stored) >= 2
    /\ stored[Len(stored)].terminal
    /\ ~stored[1].terminal
    /\ stored[1].next_state = stored[2].state
    /\ stored[1].state # stored[2].state

\* C9: of the transitions stored for an episode, each non-terminal one has reward 0 and
\* the terminal one has the episode's reward.
C9_SparseReward ==
    [][ (pc = "end" /\ pc' = "loop") =>
          \A t \in 1..Len(stored') :
              /\ (~stored'[t].terminal => stored'[t].reward = 0)
              /\ (stored'[t].terminal =>
                    stored'[t].reward = calculate_reward(reviews, current_round, submission)[1])
      ]_vars

\* C9 witness: a stored episode with a non-zero reward on its terminal transition only.
C9_Witness ==
    /\ pc = "loop"
    /\ Len(stored) >= 2
    /\ stored[1].reward = 0
    /\ stored[Len(stored)].reward # 0

C11_GreedyDeterministic ==
    (ret.fn = "select" /\ arg.epsilon = 0) =>
        /\ ret.val \in 0..2
        /\ \A j \in 1..3 : arg.q[j] <= arg.q[ret.val + 1]
        /\ \A j \in 1..ret.val : arg.q[j] < arg.q[ret.val + 1]
        /\ Cardinality(SelectActionSet(arg.q, 0)) = 1

\* C11 witness: with epsilon = 0 and the values of Submit and Debate tied at the maximum,
\* select_action returned Submit.
C11_Witness ==
    /\ ret.fn = "select"
    /\ arg.epsilon = 0
    /\ arg.q[1] = arg.q[2]
    /\ arg.q[3] <= arg.q[1]
    /\ ret.val = 0

\* C12 (as stated): the exploration rate the controller node passes to select_action is
\* the rate the harness computed for the running episode, get_epsilon(i).
C12_EpsilonFromRunState == passes >= 1 => dqn_call.epsilon = get_epsilon(i)

\* C13: current_round is 1 at the start of an episode and one more after every
\* controller pass; a controller pass returns no key besides dqn_action, current_round,
\* dqn_trace and dqn_debug_info, and leaves reviews and submission as they are.
C13_ControllerFrame ==
    /\ [](InGraph => current_round = passes + 1)
    /\ [][ pc = "dqn" =>
              /\ current_round' = current_round + 1
              /\ reviews' = reviews
              /\ submission' = submission
              /\ DqnNodeReturnKeys \subseteq
                    {"dqn_action", "current_round", "dqn_trace", "dqn_debug_info"} ]_vars

\* C13 witness: after the second controller pass of an episode, with the critiques of two
\* rounds in reviews.
C13_Witness ==
    /\ pc \in {"fanout", "end"}
    /\ passes = 2
    /\ current_round = 3
    /\ Len(reviews) = 2 * NumAgents

\* C14: while the role nodes of a round run, reviews does not change; every role node
\* that has run was given the same reviews, all of them critiques of earlier rounds, and
\* so is the history it handed to its evaluator, in whatever order the nodes run.
C14_RoundIsolation ==
    /\ [](pc = "agents" =>
            \A a \in done :
                /\ seen[a] = reviews
                /\ \A b \in done : seen[a] = seen[b]
                /\ \A k \in 1..Len(seen[a]) : seen[a][k].rnd < current_round
                /\ \A k \in 1..Len(history[a]) : history[a][k].rnd < current_round)
    /\ [][pc = "agents" /\ pc' = "agents" => reviews' = reviews]_vars

\* C14 witness: in round 2 both role nodes have returned a critique, and each was given
\* the two critiques of round 1.
C14_Witness ==
    /\ pc = "agents"
    /\ current_round = 2
    /\ done = Roles
    /\ \A a \in Roles : Len(writes[a]) = 1 /\ Len(seen[a]) = NumAgents

\* the critiques of round r among revs, in their order
CritiquesOfRound(revs, r) ==
    LET InRound(c) == c.rnd = r
    IN  SelectSeq(revs, InRound)

\* C15 (as stated): the previous_reviews a role node hands to its evaluator is empty in
\* round 1 and in a round r > 1 exactly the critiques of round r - 1.
C15_HistoryIsPreviousRound ==
    pc = "agents" =>
        \A a \in done : history[a] = CritiquesOfRound(reviews, current_round - 1)

\* C16 (as stated): the critiques the controller pass gave to the state encoder are
\* exactly those of the round the pass closed, the last len(roles) entries of reviews.
C16_EncoderGetsCurrentRound ==
    (pc \in {"fanout", "end"} /\ passes >= 1) =>
        /\ dqn_call.encoded = CritiquesOfRound(reviews, current_round - 1)
        /\ dqn_call.encoded = LastN(reviews, NumAgents)

\* C17: every critique in reviews, and every critique a role node has returned, carries
\* a role of the configured role set, the role of the node that returned it, whatever
\* role the language model put into its output.
C17_RoleFidelity ==
    /\ \A k \in 1..Len(reviews) :
          /\ reviews[k].role \in Roles
          /\ reviews[k].role = reviews[k].node
    /\ \A a \in Roles : \A k \in 1..Len(writes[a]) :
          /\ writes[a][k].role = a
          /\ writes[a][k].node = a

\* C17 witness: reviews holds the critiques of two rounds, of every role node.
C17_Witness ==
    /\ pc = "dqn"
    /\ Len(reviews) = 2 * NumAgents
    /\ {reviews[k].node : k \in 1..Len(reviews)} = Roles

IsPrefix(s, t) == Len(s) <= Len(t) /\ SubSeq(t, 1, Len(s)) = s

\* C18: within an episode every step of the graph leaves reviews as it is or extends it
\* at its end, and in reviews the critiques of a round come before those of every later
\* round.
C18_AppendOnly ==
    /\ [](\A j, k \in 1..Len(reviews) : j < k => reviews[j].rnd <= reviews[k].rnd)
    /\ [][(InGraph /\ InGraph') => IsPrefix(reviews, reviews')]_vars

\* C18 witness: the barrier of round 2 has put that round's critiques behind round 1's.
C18_Witness ==
    /\ pc = "dqn"
    /\ current_round = 2
    /\ Len(reviews) >= 2
    /\ reviews[1].rnd = 1
    /\ reviews[Len(reviews)].rnd = 2

\* a checkpoint file that can be read and holds well-formed content
GoodCheckpoint ==
    /\ checkpoint # <<>>
    /\ checkpoint[1].readable
    /\ checkpoint[1].optimizer_state_dict # "malformed"

\* C19 (as stated): after load_checkpoint on a readable checkpoint holding episode e,
\* the policy network has the checkpoint's parameters, the controller has a target
\* network loaded with them, the optimizer has the checkpoint's state, and the loop
\* starts at episode e + 1.
C19_ResumeFromCheckpoint ==
    (pc # "start" /\ GoodCheckpoint) =>
        /\ load = "loaded"
        /\ policy_net = checkpoint[1].model_state_dict
        /\ "target_net" \in AgentAttrs
        /\ optimizer = checkpoint[1].optimizer_state_dict
        /\ i = checkpoint[1].episode + 1

\* C20: load_checkpoint always returns: train() is in its loop afterwards; and when the
\* load of an existing checkpoint file failed, at whichever statement, the loop starts
\* at episode 0.
C20_LoadFailureStartsFresh ==
    /\ (pc # "start" => pc \in {"loop", "fanout"} /\ load \in {"no_file", "loaded", "failed"})
    /\ (pc # "start" /\ checkpoint # <<>> /\ ~GoodCheckpoint => load = "failed")
    /\ (load = "failed" => i = 0)

\* C20 witness: the first episode runs as episode 0 after the load of an unreadable
\* checkpoint file failed.
C20_Witness ==
    /\ pc = "fanout"
    /\ load = "failed"
    /\ checkpoint # <<>>
    /\ ~checkpoint[1].readable
    /\ i = 0

\* C21 (as stated): once the controller is constructed and load_checkpoint has returned,
\* the controller has a target network (whose parameters are the policy network's).
C21_TargetNetHeld == (pc # "start") => "target_net" \in AgentAttrs

\* C22 (as stated): the next-state values of the Bellman target come from the target
\* network, and for a terminal transition expected_q is the reward alone.
C22_TargetFromTargetNet ==
    ret.fn = "target" =>
        /\ ret.net = "target_net"
        /\ (arg.tr.terminal => ret.val = 100 * arg.tr.reward)

\* C23: after any sequence of store_transition calls the buffer holds the last
\* buffer_size transitions stored, in the order they were stored, and never more; a
\* store on a full buffer drops its oldest transition and nothing else, a store on a
\* buffer that is not full drops nothing.
C23_BoundedFifo ==
    /\ [](Len(memory) <= BufferSize /\ memory = LastN(stored, BufferSize))
    /\ [][ stored' # stored =>
              LET tr == stored'[Len(stored')]
              IN  IF Len(memory) = BufferSize
                  THEN memory' = Append(Tail(memory), tr)
                  ELSE memory' = Append(memory, tr) ]_vars

\* C23 witness: a full buffer whose oldest transition was evicted: the first transition
\* stored differs from the one now at the head of the buffer.
C23_Witness ==
    /\ Len(stored) = BufferSize + 1
    /\ Len(memory) = BufferSize
    /\ memory[1] = stored[2]
    /\ memory[1] # stored[1]

\* C24: in the step that settles an episode, update_policy leaves the buffer as the
\* stores of the episode left it; on a buffer of fewer than batch_size transitions it
\* changes neither the parameters nor the optimizer and the loss is None; otherwise
\* the optimizer has made its step and the loss is a value.
C24_UpdateFrame ==
    [][ (pc = "end" /\ pc' = "loop") =>
          /\ memory' = LastN(memory \o stored', BufferSize)
          /\ IF Len(memory') < BatchSize
             THEN /\ policy_net' = policy_net
                  /\ optimizer' = optimizer
                  /\ (metrics_log' # metrics_log =>
                        metrics_log'[Len(metrics_log')].loss = "None")
             ELSE /\ optimizer' = "stepped"
                  /\ policy_net' \in ParamSet
                  /\ (metrics_log' # metrics_log =>
                        metrics_log'[Len(metrics_log')].loss = "value") ]_vars

\* C24 witness: update_policy ran on a buffer of exactly batch_size transitions and
\* returned a loss.
C24_Witness ==
    /\ pc = "loop"
    /\ Len(memory) = BatchSize
    /\ optimizer = "stepped"
    /\ metrics_log # <<>>
    /\ metrics_log[1].loss = "value"

\* C25 (as stated): between episodes the metrics log has one row for every episode the
\* loop has run, in order, the episodes that ended in an error included.
C25_RowPerEpisode ==
    pc \in {"loop", "finished"} =>
        /\ Len(metrics_log) = i
        /\ \A k \in 1..Len(metrics_log) : metrics_log[k].episode = k - 1

\* C26 (as stated): no failure of a checkpoint write or of the final save ends the run
\* by an exception.
C26_SaveFailureSkipped == pc # "crashed"

\* C27 (as stated): when train() is started again after a checkpoint, its loop goes on
\* with the episode after the checkpoint, with the controller the ended process had
\* then: the same parameters, optimizer state and replay buffer.
C27_ResumeMatches ==
    (snapshot # <<>> /\ pc = "loop") =>
        /\ i = snapshot[1].i
        /\ policy_net = snapshot[1].policy_net
        /\ optimizer = snapshot[1].optimizer
        /\ memory = snapshot[1].memory

\* C28 (as stated): for a final state whose last round has critiques, the reward is
\* max(0, 1 - 0.4 * error) - 0.05 * (rounds_used - 1), in sixtieths, with error the
\* distance of the ground truth from the mean score of the last round's critiques and
\* rounds_used = max(1, current_round - 1); it is at most 1, and it is 1 exactly when
\* error = 0 and rounds_used = 1.
C28_RewardOfFinalRound ==
    (pc = "end" /\ CritiquesOfRound(reviews, current_round - 1) # <<>>) =>
        LET final == CritiquesOfRound(reviews, current_round - 1)
            n == Len(final)
            s == SeqSum([k \in 1..n |-> final[k].score])
            error24 == Abs((24 \div n) * s - 24 * submission)
            rounds_used == Max2(1, current_round - 1)
            total == calculate_reward(reviews, current_round, submission)[1]
        IN  /\ total = Max2(0, 60 - error24) - 3 * (rounds_used - 1)
            /\ total <= 60
            /\ (total = 60 <=> (error24 = 0 /\ rounds_used = 1))

\* C29 (as stated): for a final state whose last round has no critiques the reward is
\* the sentinel -1, whatever the rounds before it hold.
C29_EmptyFinalRoundSentinel ==
    (pc = "end" /\ CritiquesOfRound(reviews, current_round - 1) = <<>>) =>
        calculate_reward(reviews, current_round, submission)[1] = -60

\* C30: for critiques with overall_score in [0, 5] and confidence in [0, 1] and a round
\* of at least 1, every feature is a number (a fraction with a positive denominator)
\* and not negative; the features 1, 3, 4 and 5 are at most 1; feature 6 is 0; and
\* without critiques all six features are 0.
C30_EncoderDomain ==
    ret.fn = "encode" =>
        /\ \A k \in 1..6 : ret.val[k][2] > 0 /\ ret.val[k][1] >= 0
        /\ \A k \in {1, 3, 4, 5} : ret.val[k][1] <= ret.val[k][2]
        /\ ret.val[6][1] = 0
        /\ (arg.revs = <<>> => \A k \in 1..6 : ret.val[k][1] = 0)

\* C30 witness: critiques with the scores 0 and 5 in a round over the encoder's cap: the
\* round feature is 1 and the variance feature is over 1.
C30_Witness ==
    /\ ret.fn = "encode"
    /\ arg.round > EncoderMaxRounds
    /\ Len(arg.revs) = 2
    /\ arg.revs[1].score = 0
    /\ arg.revs[2].score = 5
    /\ ret.val[5] = <<1, 1>>
    /\ ret.val[2][1] > ret.val[2][2]

\* C31: for every key (set_id, role) the rubric file is read at most once and at most
\* one evaluator is constructed, and every lookup of the key returns that one evaluator,
\* also when the role nodes of a round look up their evaluators at the same time while
\* the cache is empty.
C31_BuiltOnce ==
    /\ \A sid \in SetIds : rubric_reads[sid] <= 1
    /\ \A key \in Keys : constructed[key] <= 1
    /\ \A key \in Keys : Cardinality(returned[key]) <= 1

\* C32: when run_mode is mock_training no rubric file is read, no GenericAgent (and with
\* it no language-model client) is constructed, and every evaluator the registry
\* returns is a MockAgent.
C32_MockModeBypasses ==
    run_mode = "mock_training" =>
        /\ \A sid \in SetIds : rubric_reads[sid] = 0
        /\ \A key \in Keys : agents_cache[key].kind # "GenericAgent"
        /\ \A key \in Keys : \A e \in returned[key] : e.kind = "MockAgent"

\* C33: every critique of the Mock Evaluator has an overall score of 0..5, the
\* confidence 0.9, the role the evaluator is bound to and exactly one ScoreItem; when
\* previous_reviews holds a critique of this role, the step begins from that critique,
\* and it never begins from a critique of another role.
C33_MockCritique ==
    ret.fn = "mock" =>
        LET prev == arg.previous_reviews
            own == {k \in 1..Len(prev) : prev[k].role = arg.role_name}
        IN  /\ ret.val.overall_score \in 0..500
            /\ ret.val.confidence = 9
            /\ ret.val.role = arg.role_name
            /\ Len(ret.val.scores) = 1
            /\ (own # {} => ret.val.last_me \in own)
            /\ (own = {} => ret.val.last_me = 0)

\* C33 witness: a later round whose previous_reviews begins with the other role's
\* critique, with a score other than this role's; the step began from this role's
\* critique and ended between it and the ground truth.
C33_Witness ==
    /\ ret.fn = "mock"
    /\ Len(arg.previous_reviews) = 2
    /\ arg.previous_reviews[1].role # arg.role_name
    /\ arg.previous_reviews[2].role = arg.role_name
    /\ arg.previous_reviews[1].overall_score = 400
    /\ arg.previous_reviews[2].overall_score = 100
    /\ mock_gt(arg.raw_score, arg.max_score) = 300
    /\ ret.val.last_me = 2
    /\ ret.val.overall_score = 210

\* C34: a load of the checkpoint that fails (load_checkpoint returns 0 from its except
\* branch) leaves the parameters of the policy network and the state of the optimizer
\* as they were before the load.
C34_FailedLoadNoEffect ==
    [][(pc = "start" /\ load' = "failed") =>
           (policy_net' = policy_net /\ optimizer' = optimizer)]_vars

\* C35: the previous_reviews a role node hands to its evaluator holds at most one
\* critique of each role and critiques of one round only, also after a round in which a
\* role node returned no critique.
C35_HistoryOneRound ==
    pc = "agents" =>
        \A a \in done :
            \A j, k \in 1..Len(history[a]) :
                /\ history[a][j].rnd = history[a][k].rnd
                /\ (j # k => history[a][j].role # history[a][k].role)

====
